---- MODULE Spec2Model ----
(***************************************************************************)
(* FormBuilderComponent (admin/client/src/components/FormBuilder).         *)
(*                                                                         *)
(* A JavaScript object is a function whose domain is the set of its keys:  *)
(* a key outside the domain reads as undefined.  An array is a sequence.   *)
(* The model follows one FormBuilder instance at a time.  Mounting again   *)
(* constructs a new instance; the requests of the earlier instances stay   *)
(* in flight and their callbacks still dispatch to the shared redux store  *)
(* (schemas, form), which all instances read under one schemaUrl.          *)
(***************************************************************************)
EXTENDS Integers, Sequences, FiniteSets, TLC

\* ------------------------------------------------------------------ bounds
MaxFetches == 2

\* ------------------------------------------------------------ JS helpers
EmptyObject == <<>>

Has(obj, key) == key \in DOMAIN obj

\* Object.assign({}, a, b)
ObjectAssign(a, b) ==
  [k \in (DOMAIN a) \cup (DOMAIN b) |-> IF k \in DOMAIN b THEN b[k] ELSE a[k]]

\* ------------------------------------------------- server responses (json)
SchemaUrl == "admin/schema"
Values == {"Hello", "World"}

SchemaFields ==
  << [id |-> "1", name |-> "Title"], [id |-> "2", name |-> "Content"] >>

Attributes == [action |-> "admin/submit", method |-> "POST"]

SaveAction == [name |-> "action_save", title |-> "Save"]

\* the schema part of a response: complete, with no actions, or lacking a member
SchemaOK == [fields |-> SchemaFields, actions |-> <<SaveAction>>, attributes |-> Attributes]
SchemaNoButtons == [fields |-> SchemaFields, actions |-> <<>>, attributes |-> Attributes]
SchemaLacksActions == [fields |-> SchemaFields, attributes |-> Attributes]
SchemaLacksAttributes == [fields |-> SchemaFields, actions |-> <<SaveAction>>]

\* the state part of a response: per-field state in schema order and in
\* another order, and a state with no id
StateOK ==
  [id |-> "f1", fields |-> << [id |-> "1", value |-> "Hello"], [id |-> "2", value |-> "World"] >>]
StateSwapped ==
  [id |-> "f1", fields |-> << [id |-> "2", value |-> "World"], [id |-> "1", value |-> "Hello"] >>]
StateNoId ==
  [fields |-> << [id |-> "1", value |-> "Hello"], [id |-> "2", value |-> "World"] >>]

\* the bodies the server may answer with: what
\* { id, schema: {...}, state: {...} } can be when parts are left out
Responses ==
  { [id |-> "f1", schema |-> SchemaOK, state |-> StateOK],
    [id |-> "f1", schema |-> SchemaOK, state |-> StateSwapped],
    [id |-> "f1", schema |-> SchemaOK, state |-> StateNoId],
    [id |-> "f1", schema |-> SchemaNoButtons],
    [id |-> "f1", state |-> StateOK],
    [id |-> "f1", schema |-> SchemaLacksActions, state |-> StateOK],
    [id |-> "f1", schema |-> SchemaLacksAttributes, state |-> StateOK],
    [schema |-> SchemaOK, state |-> StateOK],
    [schema |-> SchemaOK],
    [state |-> StateSwapped],
    EmptyObject }

\* ------------------------------------------------------------------ state
VARIABLES
  schemas,            \* store: state.schemas, keyed by schema url
  form,               \* store: state.form, keyed by form id
  life,               \* the instance: "new", "mounted" or "unmounted"
  handler,            \* props.handleSubmit is supplied
  isFetching,         \* this.state.isFetching
  formSchemaPromise,  \* this.formSchemaPromise (0 is null)
  submitApi,          \* this.submitApi (no key "fn": undefined)
  pending,            \* the instance's requests whose response has not arrived
  orphaned,           \* the same, of earlier instances
  nextPromise,        \* the next promise object the transport creates
  held,               \* the submitFn closure the caller holds (key "fieldValues")
  last,               \* what the last handler did: its effects, in order
  view,               \* the props render() and the map functions are applied to
  output              \* what the last of them returned

vars == << schemas, form, life, handler, isFetching, formSchemaPromise,
           submitApi, pending, orphaned, nextPromise, held, last, view, output >>

rvars == << view, output >>

Event(op, json, effects, threw, returned, before) ==
  [op |-> op, json |-> json, effects |-> effects, threw |-> threw,
   returned |-> returned, pendingBefore |-> before]

Kinds(effects) == [k \in DOMAIN effects |-> effects[k].kind]

Payloads(effects, kind) ==
  { effects[k].payload : k \in { n \in DOMAIN effects : effects[n].kind = kind } }

\* ------------------------------------------------ store reducers
SetSchemaReducer(s, formSchema) == ObjectAssign(s, SchemaUrl :> formSchema)

AddFormReducer(f, formState) == ObjectAssign(f, formState.id :> formState)

RemoveFormReducer(f, formId) == [k \in (DOMAIN f) \ {formId} |-> f[k]]

UpdateFieldReducer(f, formId, updates) ==
  IF ~Has(f, formId) THEN f
  ELSE ObjectAssign(f, formId :> ObjectAssign(f[formId],
         [fields |-> [k \in DOMAIN f[formId].fields |->
            IF f[formId].fields[k].id = updates.id
            THEN ObjectAssign(f[formId].fields[k], updates)
            ELSE f[formId].fields[k]]]))

\* ------------------------------------------------ accessors
HasFormSchema == Has(schemas, SchemaUrl)

getFormSchema == IF HasFormSchema THEN schemas[SchemaUrl] ELSE EmptyObject

\* schema.id (which may be undefined), or null when the store has no schema
\* for the url
getFormId ==
  IF HasFormSchema
  THEN IF Has(getFormSchema, "id") THEN getFormSchema.id ELSE "undefined"
  ELSE "null"

\* ------------------------------------------------ constructor
Init ==
  /\ schemas = EmptyObject
  /\ form = EmptyObject
  /\ life = "new"
  /\ handler = FALSE
  /\ isFetching = FALSE
  /\ formSchemaPromise = 0
  /\ submitApi = EmptyObject
  /\ pending = {}
  /\ orphaned = {}
  /\ nextPromise = 1
  /\ held = EmptyObject
  /\ last = Event("init", EmptyObject, <<>>, FALSE, 0, {})
  /\ view = EmptyObject
  /\ output = EmptyObject

\* ------------------------------------------------ fetch
\* fetch(): the early return, else the request
FetchBody(op, fetching, promise, inFlight) ==
  IF fetching = TRUE
  THEN /\ formSchemaPromise' = promise
       /\ pending' = inFlight
       /\ nextPromise' = nextPromise
       /\ last' = Event(op, EmptyObject, <<>>, FALSE, promise, inFlight)
  ELSE /\ nextPromise <= MaxFetches
       /\ formSchemaPromise' = nextPromise
       /\ pending' = inFlight \cup {nextPromise}
       /\ nextPromise' = nextPromise + 1
       /\ last' = Event(op, EmptyObject,
                        << [kind |-> "request", payload |-> nextPromise] >>,
                        FALSE, nextPromise, inFlight)

\* a new instance is constructed and mounted; componentDidMount calls fetch()
componentDidMount ==
  /\ life \in {"new", "unmounted"}
  /\ life' = "mounted"
  /\ \E h \in BOOLEAN : handler' = h
  /\ isFetching' = FALSE
  /\ submitApi' = EmptyObject
  /\ held' = EmptyObject
  /\ orphaned' = orphaned \cup pending
  /\ FetchBody("componentDidMount", FALSE, 0, {})
  /\ UNCHANGED << rvars, schemas, form >>

fetch ==
  /\ life = "mounted"
  /\ FetchBody("fetch", isFetching, formSchemaPromise, pending)
  /\ UNCHANGED << rvars, schemas, form, life, handler, isFetching, submitApi, orphaned, held >>

\* ------------------------------------------------ the response callback
SecurityID == "token"

\* Object.assign({}, { id: json.id, schema: json.schema })
FormSchemaOf(json) == [k \in {"id", "schema"} \cap DOMAIN json |-> json[k]]

\* Object.assign({}, json.state)
FormStateOf(json) == IF Has(json, "state") THEN json.state ELSE EmptyObject

\* faulty variant: the test looks at the schema member instead of the id
SchemaMemberDefined(formSchema) == Has(formSchema, "schema")

\* typeof formSchema.id !== 'undefined'
SchemaIdDefined(formSchema) == Has(formSchema, "id")

\* typeof formState.id !== 'undefined'
StateIdDefined(formState) == Has(formState, "id")

\* formSchema.schema.actions.length and formSchema.schema.attributes.action
\* raise a TypeError when the member they read from is undefined
SchemaBranchThrows(formSchema) ==
  \/ ~Has(formSchema, "schema")
  \/ ~Has(formSchema.schema, "actions")
  \/ ~Has(formSchema.schema, "attributes")

DefaultData(formSchema) ==
  IF Len(formSchema.schema.actions) > 0
  THEN ObjectAssign([SecurityID |-> SecurityID], formSchema.schema.actions[1].name :> "1")
  ELSE [SecurityID |-> SecurityID]

\* backend.createEndpointFetcher({ url, method, defaultData })
EndpointOf(formSchema) ==
  [url |-> formSchema.schema.attributes.action,
   method |-> formSchema.schema.attributes.method,
   defaultData |-> DefaultData(formSchema)]

SchemaEffects(formSchema) ==
  IF SchemaIdDefined(formSchema)
  THEN << [kind |-> "createEndpointFetcher", payload |-> EndpointOf(formSchema)],
          [kind |-> "setSchema", payload |-> formSchema] >>
  ELSE << >>

StateEffects(formState) ==
  IF StateIdDefined(formState)
  THEN << [kind |-> "addForm", payload |-> formState] >>
  ELSE << >>

\* the .then(json => ...) callback: the effects it has, in order, and whether
\* it ended in a TypeError (nothing after the throwing line runs)
OnJson(json) ==
  LET formSchema == FormSchemaOf(json)
      formState == FormStateOf(json)
  IN IF SchemaIdDefined(formSchema) /\ SchemaBranchThrows(formSchema)
     THEN [threw |-> TRUE, effects |-> << >>]
     ELSE [threw |-> FALSE,
           effects |-> SchemaEffects(formSchema) \o StateEffects(formState)]

\* the store after the dispatches among the effects
SchemasAfter(effects) ==
  IF Payloads(effects, "setSchema") = {} THEN schemas
  ELSE SetSchemaReducer(schemas, CHOOSE x \in Payloads(effects, "setSchema") : TRUE)

FormAfter(effects) ==
  IF Payloads(effects, "addForm") = {} THEN form
  ELSE AddFormReducer(form, CHOOSE x \in Payloads(effects, "addForm") : TRUE)

\* the response of a request in flight arrives, whatever became of the
\* instance since
response ==
  \E p \in pending, json \in Responses :
    /\ LET r == OnJson(json) IN
       /\ pending' = pending \ {p}
       /\ submitApi' = IF Payloads(r.effects, "createEndpointFetcher") = {} THEN submitApi
                        ELSE [fn |-> EndpointOf(FormSchemaOf(json))]
       /\ schemas' = SchemasAfter(r.effects)
       /\ form' = FormAfter(r.effects)
       /\ last' = Event("response", json, r.effects, r.threw, p, pending)
    /\ UNCHANGED << rvars, life, handler, isFetching, formSchemaPromise, orphaned, nextPromise, held >>

\* the same callback, of a request of an earlier instance: its this.submitApi
\* is that instance's
orphanResponse ==
  \E p \in orphaned, json \in Responses :
    /\ LET r == OnJson(json) IN
       /\ orphaned' = orphaned \ {p}
       /\ schemas' = SchemasAfter(r.effects)
       /\ form' = FormAfter(r.effects)
       /\ last' = Event("orphanResponse", json, r.effects, r.threw, p, pending)
    /\ UNCHANGED << rvars, life, handler, isFetching, formSchemaPromise, submitApi, pending,
                    nextPromise, held >>

\* ------------------------------------------------ render
\* render() returns a Form only when the store has a schema (with an id) for
\* the url; the Form is on screen while the instance is mounted
Rendered == life = "mounted" /\ getFormId \notin {"null", "undefined"} /\ HasFormSchema

\* ------------------------------------------------ removeForm
\* this.props.formActions.removeForm(formId)
removeForm(formId) == << [kind |-> "removeForm", payload |-> formId] >>

\* faulty variant: the teardown aborts the requests in flight
AbortedByTeardown(inFlight) == {}

\* the requests in flight once the builder is torn down: removeForm is all
\* the teardown runs, and it withdraws none
InFlightAfterTeardown(inFlight) == inFlight

\* the builder is torn down.  Its Form, if it rendered one, calls the
\* componentWillUnmount prop (this.removeForm) with its formId.
componentWillUnmount ==
  /\ life = "mounted"
  /\ life' = "unmounted"
  /\ pending' = InFlightAfterTeardown(pending)
  /\ IF Rendered
     THEN /\ form' = RemoveFormReducer(form, getFormId)
          /\ last' = Event("componentWillUnmount", EmptyObject, removeForm(getFormId),
                           FALSE, 0, pending)
     ELSE /\ form' = form
          /\ last' = Event("componentWillUnmount", EmptyObject, << >>, FALSE, 0, pending)
  /\ UNCHANGED << rvars, schemas, handler, isFetching, formSchemaPromise, submitApi,
                  orphaned, nextPromise, held >>

\* ------------------------------------------------ handleFieldUpdate
FieldIds == { SchemaFields[k].id : k \in DOMAIN SchemaFields }

handleFieldUpdate ==
  /\ Rendered
  /\ \E id \in FieldIds, v \in Values, fn \in BOOLEAN :
       LET updates == [id |-> id, value |-> v] IN
       IF fn
       THEN /\ form' = form
            /\ last' = Event("handleFieldUpdate", EmptyObject,
                             << [kind |-> "fn", payload |-> getFormId] >>, FALSE, 0, pending)
       ELSE /\ form' = UpdateFieldReducer(form, getFormId, updates)
            /\ last' = Event("handleFieldUpdate", EmptyObject,
                             << [kind |-> "updateField", payload |-> updates] >>,
                             FALSE, 0, pending)
  /\ UNCHANGED << rvars, schemas, life, handler, isFetching, formSchemaPromise, submitApi,
                  pending, orphaned, nextPromise, held >>

\* ------------------------------------------------ handleSubmit
\* faulty variant: "=" for "===" in the predicate, which then holds of the first field
FindAssigning(schemaFields, id) == IF Len(schemaFields) > 0 THEN 1 ELSE 0

\* schemaFields.find(schemaField => schemaField.id === id): the first match,
\* 0 for undefined
Find(schemaFields, id) ==
  IF \E k \in DOMAIN schemaFields : schemaFields[k].id = id
  THEN CHOOSE k \in DOMAIN schemaFields :
         /\ schemaFields[k].id = id
         /\ \A j \in 1..(k - 1) : schemaFields[j].id # id
  ELSE 0

\* the reduce over the first n fields of the form's state
RECURSIVE FieldValues(_, _, _)
FieldValues(schemaFields, stateFields, n) ==
  IF n = 0 THEN EmptyObject
  ELSE ObjectAssign(FieldValues(schemaFields, stateFields, n - 1),
         schemaFields[Find(schemaFields, stateFields[n].id)].name :> stateFields[n].value)

\* this.props.form[formId] is undefined, or find(...) is: a TypeError
FieldValuesThrows ==
  \/ ~Has(form, getFormId)
  \/ \E n \in DOMAIN form[getFormId].fields :
       Find(getFormSchema.schema.fields, form[getFormId].fields[n].id) = 0

\* submitFn: this.submitApi and getFormId() are read when it is called
SubmitFn(fieldValues) ==
  [kind |-> "submitForm",
   payload |-> [submitApi |-> submitApi, formId |-> getFormId, fieldValues |-> fieldValues]]

\* faulty variant: no return after the caller's handler
RouteFallingThrough(supplied, fieldValues) ==
  IF supplied
  THEN << [kind |-> "props.handleSubmit", payload |-> fieldValues],
          [kind |-> "preventDefault", payload |-> EmptyObject],
          [kind |-> "submitForm",
           payload |-> [submitApi |-> submitApi, formId |-> getFormId,
                        fieldValues |-> fieldValues]] >>
  ELSE << [kind |-> "preventDefault", payload |-> EmptyObject],
          [kind |-> "submitForm",
           payload |-> [submitApi |-> submitApi, formId |-> getFormId,
                        fieldValues |-> fieldValues]] >>

\* the part of handleSubmit after fieldValues: the caller's handler, or the default
Route(supplied, fieldValues) ==
  IF supplied
  THEN << [kind |-> "props.handleSubmit", payload |-> fieldValues] >>
  ELSE << [kind |-> "preventDefault", payload |-> EmptyObject], SubmitFn(fieldValues) >>

handleSubmit ==
  /\ Rendered
  /\ IF FieldValuesThrows
     THEN /\ held' = held
          /\ last' = Event("handleSubmit", EmptyObject, << >>, TRUE, 0, pending)
     ELSE LET fieldValues == FieldValues(getFormSchema.schema.fields,
                                         form[getFormId].fields,
                                         Len(form[getFormId].fields))
          IN /\ held' = IF handler THEN [fieldValues |-> fieldValues] ELSE held
             /\ last' = Event("handleSubmit", EmptyObject, Route(handler, fieldValues),
                              FALSE, 0, pending)
  /\ UNCHANGED << rvars, schemas, form, life, handler, isFetching, formSchemaPromise, submitApi,
                  pending, orphaned, nextPromise >>

\* the caller's handler calls the submitFn it was given, then or later
submitFn ==
  /\ Has(held, "fieldValues")
  /\ last' = Event("submitFn", EmptyObject, << SubmitFn(held.fieldValues) >>, FALSE, 0, pending)
  /\ UNCHANGED << rvars, schemas, form, life, handler, isFetching, formSchemaPromise, submitApi,
                  pending, orphaned, nextPromise, held >>

Next ==
  \/ componentDidMount
  \/ fetch
  \/ response
  \/ orphanResponse
  \/ componentWillUnmount
  \/ handleFieldUpdate
  \/ handleSubmit
  \/ submitFn

Spec == Init /\ [][Next]_vars

\* ====================================================================
\* Properties of the fetch / submit machine (Spec)
\* ====================================================================
IsResponse == last.op \in {"response", "orphanResponse"}

Count(effects, kind) == Cardinality({ n \in DOMAIN effects : effects[n].kind = kind })

\* C1: a fetch() made while an earlier fetch() of the instance is pending
\* issues no request and returns the pending promise of the earlier call, so
\* the instance never has more than one request in flight.
C1_SingleRequestInFlight ==
  /\ Cardinality(pending) <= 1
  /\ (last.op = "fetch" /\ last.pendingBefore # {})
       => (last.effects = << >> /\ last.returned \in last.pendingBefore)

\* C2: set-schema is dispatched, and a submission function derived, only for
\* a response in which the schema record's id (json.id) is defined.
C2_NoIdNoSetSchema ==
  IsResponse =>
    /\ (Count(last.effects, "setSchema") > 0 => Has(last.json, "id"))
    /\ (Count(last.effects, "createEndpointFetcher") > 0 => Has(last.json, "id"))

C2_Witness ==
  /\ last.op = "response"
  /\ Has(last.json, "schema")
  /\ ~Has(last.json, "id")
  /\ Count(last.effects, "addForm") = 1

\* C3: for every parsed response, add-form is dispatched exactly once with
\* the state record if and only if the state's id is defined, whatever the
\* schema part is.
C3_StatePublishedIffStateId ==
  IsResponse =>
    IF Has(last.json, "state") /\ Has(last.json.state, "id")
    THEN Payloads(last.effects, "addForm") = {last.json.state}
           /\ Count(last.effects, "addForm") = 1
    ELSE Count(last.effects, "addForm") = 0

\* the name of the schema field that has the id
NameOf(id) ==
  (CHOOSE f \in { getFormSchema.schema.fields[k] : k \in DOMAIN getFormSchema.schema.fields } :
     f.id = id).name

StateFieldsNow == { form[getFormId].fields[k] : k \in DOMAIN form[getFormId].fields }

Submitted == last.op = "handleSubmit" /\ ~last.threw

\* C4: handleSubmit goes one of two ways.  With a handler supplied it calls
\* the handler once, with the field values and submitFn, and neither calls
\* preventDefault nor dispatches submit-form; submit-form is then dispatched
\* only when the caller calls submitFn.  With none it calls preventDefault and
\* then dispatches submit-form once with (submitApi, form id, field values).
C4_SubmitRouting ==
  /\ (Submitted /\ handler) =>
        /\ Kinds(last.effects) = << "props.handleSubmit" >>
        /\ Has(held, "fieldValues")
        /\ held.fieldValues = last.effects[1].payload
  /\ (Submitted /\ ~handler) =>
        /\ Kinds(last.effects) = << "preventDefault", "submitForm" >>
        /\ last.effects[2].payload.formId = getFormId
        /\ last.effects[2].payload.submitApi = submitApi
        /\ DOMAIN last.effects[2].payload.fieldValues = { NameOf(f.id) : f \in StateFieldsNow }
  /\ Count(last.effects, "submitForm") > 0 =>
        \/ last.op = "handleSubmit" /\ ~handler
        \/ last.op = "submitFn" /\ Has(held, "fieldValues")

C4_Witness == Submitted /\ handler /\ Has(form, getFormId)

\* the field values handleSubmit computed
Computed ==
  IF handler THEN last.effects[1].payload ELSE last.effects[2].payload.fieldValues

\* C5: the payload maps, for every field of the form's state, the name of the
\* schema field with the same id to that field's current value, and has no
\* other key.
C5_PayloadByFieldId ==
  Submitted =>
    /\ DOMAIN Computed = { NameOf(f.id) : f \in StateFieldsNow }
    /\ \A f \in StateFieldsNow : Computed[NameOf(f.id)] = f.value
    /\ (\A f \in StateFieldsNow : f.value = IF f.id = "1" THEN "Hello" ELSE "World")
          => Computed = [Title |-> "Hello", Content |-> "World"]

\* the state's fields are not in the schema's order
C5_Witness ==
  /\ Submitted
  /\ form[getFormId].fields[1].id = "2"
  /\ Computed = [Title |-> "Hello", Content |-> "World"]

\* C9: nothing cancels a request.  Tearing the builder down leaves its
\* requests in flight, the response of each is still delivered, and a response
\* that arrives after the teardown dispatches set-schema and add-form as any
\* other.
C9_NoCancellation ==
  /\ last.op = "componentWillUnmount" => pending = last.pendingBefore
  /\ (last.op = "response" /\ life = "unmounted" /\ ~last.threw)
       => /\ Has(last.json, "id") => Count(last.effects, "setSchema") = 1
          /\ (Has(last.json, "state") /\ Has(last.json.state, "id"))
                => (Count(last.effects, "addForm") = 1 /\ Has(form, last.json.state.id))

\* the store holds state of a form that is not rendered
C9_Witness ==
  /\ life = "unmounted"
  /\ last.op = "response"
  /\ Count(last.effects, "setSchema") = 1
  /\ Count(last.effects, "addForm") = 1
  /\ Has(form, "f1")

\* C10: whenever submit-form is dispatched, the submission function passed
\* is defined.
C10_SubmitApiDefined ==
  \A n \in DOMAIN last.effects :
    last.effects[n].kind = "submitForm" => Has(last.effects[n].payload.submitApi, "fn")

mvars == << schemas, form, life, handler, isFetching, formSchemaPromise,
            submitApi, pending, orphaned, nextPromise, held, last >>

\* ====================================================================
\* render(), mergeFieldData, mapFieldsToComponents, mapActionsToComponents
\*
\* Here a value carries its JavaScript type, as merge's typeOf reports it:
\* an object is a function from its keys to such values.
\* ====================================================================
MaxFields == 2
MaxActions == 2

Value(type, val, members) == [type |-> type, val |-> val, members |-> members]
Undefined == Value("undefined", "", EmptyObject)
Null == Value("null", "", EmptyObject)
Str(s) == Value("string", s, EmptyObject)
Bool(b) == Value("boolean", b, EmptyObject)
Arr(a) == Value("array", a, EmptyObject)
Obj(f) == Value("object", "", f)

\* obj[key]
Get(obj, key) == IF key \in DOMAIN obj THEN obj[key] ELSE Undefined

\* ------------------------------------------------ merge.recursive
\* the keys "for (key in extend)" visits; the values met here against an
\* object are objects, or have no enumerable keys
ForIn(extend) == IF extend.type = "object" THEN DOMAIN extend.members ELSE {}

RECURSIVE merge_recursive(_, _)
merge_recursive(base, extend) ==
  IF base.type # "object" THEN extend
  ELSE Obj([k \in (DOMAIN base.members) \cup ForIn(extend) |->
         IF k \in ForIn(extend)
         THEN IF Get(base.members, k).type = "object" /\ extend.members[k].type = "object"
              THEN merge_recursive(base.members[k], extend.members[k])
              ELSE extend.members[k]
         ELSE base.members[k]])

\* one turn of merge's loop over its arguments: every key of item into result
MergeItem(result, item) ==
  [k \in (DOMAIN result) \cup (DOMAIN item) |->
     IF k \in DOMAIN item THEN merge_recursive(Get(result, k), item[k]) ELSE result[k]]

\* merge.recursive(true, first, second) starts from a new object and clones
\* what it takes; without the leading true it merges into first itself.
\* "first" is the first argument as the call leaves it.
MergeRecursive(clone, first, second) ==
  LET result == MergeItem(MergeItem(EmptyObject, first), second)
  IN [result |-> result, first |-> IF clone THEN first ELSE result]

\* ------------------------------------------------ mergeFieldData
StateKeys == {"data", "messages", "valid", "value"}

\* faulty variant: the arguments of the merge the other way round
mergeFieldDataStructureLast(structure, state) ==
  MergeRecursive(TRUE, [k \in StateKeys |-> Get(state, k)], structure)

mergeFieldData(structure, state) ==
  MergeRecursive(TRUE, structure, [k \in StateKeys |-> Get(state, k)])

\* ------------------------------------------------ render: fieldData
\* formSchema.schema && formState && formState.fields
HasFieldState(v) == Has(v.form, "f1") /\ Has(v.form["f1"], "fields")

\* the merge of field i, where there is state to merge
FieldMerge(v, i) == mergeFieldData(v.fields[i], v.form["f1"].fields[i])

fieldData(v) ==
  IF HasFieldState(v)
  THEN [i \in DOMAIN v.fields |-> FieldMerge(v, i).result]
  ELSE v.fields

\* the schema's fields in the store once render() has returned
FieldsAfterRender(v) ==
  IF HasFieldState(v)
  THEN [i \in DOMAIN v.fields |-> FieldMerge(v, i).first]
  ELSE v.fields

render ==
  /\ output' = [op |-> "render", of |-> view, fields |-> fieldData(view), calls |-> 0]
  /\ view' = [view EXCEPT !.fields = FieldsAfterRender(view)]
  /\ UNCHANGED mvars

\* ------------------------------------------------ injector
Registered == {"TextField", "HiddenField"}
DataTypes == [String |-> "TextField", Hidden |-> "HiddenField"]

NoComponent == "null"

getComponentByName(name) == IF name \in Registered THEN name ELSE NoComponent

getComponentByDataType(type) == IF Has(DataTypes, type) THEN DataTypes[type] ELSE NoComponent

\* ------------------------------------------------ mapFieldsToComponents
\* faulty variant: the explicit component name is not looked at
ResolveByDataType(field) == getComponentByDataType(Get(field, "type").val)

Resolve(field) ==
  IF Get(field, "component").type # "null"
  THEN getComponentByName(Get(field, "component").val)
  ELSE getComponentByDataType(Get(field, "type").val)

NullEntry == [null |-> TRUE]

\* what the callback of fields.map returns for field i
FieldEntry(field, i, createFn) ==
  IF Resolve(field) = NoComponent
  THEN NullEntry
  ELSE [component |-> Resolve(field),
        props |-> ObjectAssign(field, [onChange |-> Str("handleFieldUpdate")]),
        by |-> IF createFn THEN "createFn" ELSE "jsx",
        key |-> IF createFn THEN 0 ELSE i - 1]

mapFieldsToComponents(fields, createFn) ==
  [i \in DOMAIN fields |-> FieldEntry(fields[i], i, createFn)]

\* the calls of createFn a list of entries took
CreateFnCalls(entries) ==
  Cardinality({ i \in DOMAIN entries : entries[i] # NullEntry /\ entries[i].by = "createFn" })

mapFields ==
  /\ output' = [op |-> "mapFieldsToComponents", of |-> view,
                fields |-> mapFieldsToComponents(view.fields, view.createFn),
                calls |-> CreateFnCalls(mapFieldsToComponents(view.fields, view.createFn))]
  /\ UNCHANGED << view, mvars >>

\* ------------------------------------------------ mapActionsToComponents
\* form.submitting, or false when this.props.form has no entry for the form
Loading(v) ==
  IF Has(v.form, "f1") THEN Get(v.form["f1"], "submitting") ELSE Bool("false")

SaveDefaults(props, v) ==
  [type |-> Str("submit"),
   label |-> Get(props, "title"),
   icon |-> Str("save"),
   loading |-> Loading(v),
   bootstrapButtonStyle |-> Str("primary")]

CancelDefaults(props) ==
  [type |-> Str("button"),
   label |-> Get(props, "title")]

\* faulty variant: the defaults assigned after the action's own properties
ActionPropsDefaultsLast(action, v) ==
  IF Get(action, "name") = Str("action_save")
  THEN ObjectAssign(action, SaveDefaults(action, v))
  ELSE IF Get(action, "name") = Str("action_cancel")
  THEN ObjectAssign(action, CancelDefaults(action))
  ELSE action

\* the props the switch on props.name leaves
ActionProps(action, v) ==
  IF Get(action, "name") = Str("action_save")
  THEN ObjectAssign(SaveDefaults(action, v), action)
  ELSE IF Get(action, "name") = Str("action_cancel")
  THEN ObjectAssign(CancelDefaults(action), action)
  ELSE action

mapActionsToComponents(actions, v) ==
  [i \in DOMAIN actions |->
     [component |-> "FormAction",
      props |-> ActionProps(actions[i], v),
      by |-> IF v.createFn THEN "createFn" ELSE "jsx",
      key |-> IF v.createFn THEN 0 ELSE i - 1]]

mapActions ==
  /\ output' = [op |-> "mapActionsToComponents", of |-> view,
                fields |-> mapActionsToComponents(view.actions, view),
                calls |-> CreateFnCalls(mapActionsToComponents(view.actions, view))]
  /\ UNCHANGED << view, mvars >>

\* ------------------------------------------------ the views explored
BaseField == [id |-> Str("1"), name |-> Str("Title"), type |-> Str("String"), component |-> Null]

\* schema fields: with none, all or some of the keys a field's state has,
\* and with each way of naming a component, known to the registry or not
FieldVariants ==
  { BaseField,
    ObjectAssign(BaseField,
      [type |-> Str("Custom"), component |-> Str("TextField"),
       value |-> Str("default"), valid |-> Bool("true"), messages |-> Arr("[]"),
       data |-> Obj([a |-> Str("schema"), c |-> Str("schema")])]),
    ObjectAssign(BaseField,
      [component |-> Str("Unknown"), value |-> Str("default"), data |-> Obj(EmptyObject)]),
    ObjectAssign(BaseField, [type |-> Str("Custom")]) }

\* field state as FormSchema generates it
StateVariants ==
  { [id |-> Str("1"), value |-> Str("Hello"), valid |-> Bool("true"),
     messages |-> Arr("[]"), data |-> Obj(EmptyObject)],
    [id |-> Str("1"), value |-> Str("World"), valid |-> Bool("false"),
     messages |-> Arr("[required]"), data |-> Obj([a |-> Str("state")])],
    [id |-> Str("1"), value |-> Null, valid |-> Bool("true"),
     messages |-> Arr("[]"), data |-> Obj([b |-> Str("state")])] }

ButtonKeys == {"type", "label", "icon", "loading", "bootstrapButtonStyle"}
ExplicitSets == { {}, {"type", "label"}, {"icon", "loading", "bootstrapButtonStyle"} }
ActionNames == {"action_save", "action_cancel", "action_export"}

ActionVariants ==
  { ObjectAssign([name |-> Str(n), title |-> Str("Title")], [k \in e |-> Str("explicit")]) :
      n \in ActionNames, e \in ExplicitSets }
    \cup { [name |-> Str("action_save")] }

FieldViews ==
  UNION { { [fields |-> f, form |-> fs, actions |-> << >>, createFn |-> c] :
              f \in [1..n -> FieldVariants],
              fs \in { EmptyObject } \cup
                    { [f1 |-> [fields |-> st, submitting |-> Bool("false")]] :
                        st \in [1..n -> StateVariants] },
              c \in BOOLEAN } : n \in 1..MaxFields }

ActionViews ==
  UNION { { [fields |-> << >>, form |-> fs, actions |-> a, createFn |-> c] :
              a \in [1..n -> ActionVariants],
              fs \in { EmptyObject, [f1 |-> [submitting |-> Bool("true")]],
                       [f1 |-> [submitting |-> Bool("false")]] },
              c \in BOOLEAN } : n \in 1..MaxActions }

InitRender ==
  /\ schemas = EmptyObject
  /\ form = EmptyObject
  /\ life = "new"
  /\ handler = FALSE
  /\ isFetching = FALSE
  /\ formSchemaPromise = 0
  /\ submitApi = EmptyObject
  /\ pending = {}
  /\ orphaned = {}
  /\ nextPromise = 1
  /\ held = EmptyObject
  /\ last = Event("init", EmptyObject, <<>>, FALSE, 0, {})
  /\ view \in FieldViews \cup ActionViews
  /\ output = [op |-> "none", of |-> view, fields |-> << >>, calls |-> 0]

NextRender ==
  \/ render
  \/ mapFields
  \/ mapActions

SpecRender == InitRender /\ [][NextRender]_vars

\* ====================================================================
\* Properties of render and the map functions (SpecRender)
\* ====================================================================
Merged == output.op = "render" /\ HasFieldState(output.of)

\* key k of merged field r, made of schema field f and field state st
MergedKey(r, f, st, k) ==
  IF k \notin StateKeys THEN r[k] = f[k]
  ELSE IF k \in DOMAIN f /\ f[k].type = "object" /\ st[k].type = "object"
  THEN /\ r[k].type = "object"
       /\ DOMAIN r[k].members = (DOMAIN f[k].members) \cup (DOMAIN st[k].members)
       /\ \A m \in DOMAIN r[k].members :
            r[k].members[m] = IF m \in DOMAIN st[k].members
                              THEN st[k].members[m] ELSE f[k].members[m]
  ELSE r[k] = st[k]

\* C6: with N schema fields and N field states the field list has N entries;
\* entry i has the keys of schema field i and of state field i's data,
\* messages, valid and value, the state's value on a key of both (member by
\* member where both are objects), and the stored records are left as they were.
C6_MergedFields ==
  Merged =>
    /\ view = output.of
    /\ Len(output.fields) = Len(output.of.fields)
    /\ \A i \in DOMAIN output.fields :
         LET r == output.fields[i]
             f == output.of.fields[i]
             st == output.of.form["f1"].fields[i]
         IN /\ DOMAIN r = (DOMAIN f) \cup (StateKeys \cap DOMAIN st)
            /\ \A k \in DOMAIN r : MergedKey(r, f, st, k)

C6_Witness ==
  /\ Merged
  /\ Len(output.fields) = MaxFields
  /\ \E i \in DOMAIN output.fields :
       /\ Has(output.of.fields[i], "value")
       /\ output.of.fields[i].value # output.of.form["f1"].fields[i].value
       /\ output.fields[i].value = output.of.form["f1"].fields[i].value
       /\ output.fields[i].data = Obj([a |-> Str("state"), c |-> Str("schema")])

\* C7: for an action named action_save every property the action has keeps
\* the action's value, and each of type, label, icon, loading and
\* bootstrapButtonStyle it lacks takes its default.
C7_SaveDefaults ==
  output.op = "mapActionsToComponents" =>
    \A i \in DOMAIN output.fields :
      LET a == output.of.actions[i]
          p == output.fields[i].props
      IN (Has(a, "name") /\ a.name = Str("action_save")) =>
           /\ DOMAIN p = (DOMAIN a) \cup ButtonKeys
           /\ \A k \in DOMAIN a : p[k] = a[k]
           /\ ~Has(a, "type") => p.type = Str("submit")
           /\ ~Has(a, "label") =>
                p.label = IF Has(a, "title") THEN a.title ELSE Undefined
           /\ ~Has(a, "icon") => p.icon = Str("save")
           /\ ~Has(a, "loading") =>
                p.loading = IF Has(output.of.form, "f1")
                            THEN output.of.form["f1"].submitting ELSE Bool("false")
           /\ ~Has(a, "bootstrapButtonStyle") => p.bootstrapButtonStyle = Str("primary")

C7_Witness ==
  /\ output.op = "mapActionsToComponents"
  /\ \E i \in DOMAIN output.fields :
       /\ output.of.actions[i].name = Str("action_save")
       /\ ~Has(output.of.actions[i], "type")
       /\ output.fields[i].props.type = Str("submit")
       /\ output.fields[i].props.icon = Str("save")
       /\ output.fields[i].props.loading = Bool("true")

\* the registry has no component for the field
Unresolvable(field) ==
  \/ field.component.type # "null" /\ field.component.val \notin Registered
  \/ field.component.type = "null" /\ field.type.val \notin DOMAIN DataTypes

Mapped == output.op = "mapFieldsToComponents"

\* C8 as claimed: a field whose component cannot be resolved leaves no entry
\* in the result.
C8_UnresolvableLeavesNoEntry ==
  Mapped =>
    /\ \A i \in DOMAIN output.fields : output.fields[i] # NullEntry
    /\ Len(output.fields) =
         Cardinality({ i \in DOMAIN output.of.fields : ~Unresolvable(output.of.fields[i]) })

\* C8 as amended: the result has one entry per field, in order; the entry of
\* a field whose component cannot be resolved is null and createFn is not
\* called for it, and the entry of any other field is one unit of the
\* resolved component, with the field's properties and the change callback.
C8_UnresolvableYieldsNull ==
  Mapped =>
    /\ Len(output.fields) = Len(output.of.fields)
    /\ \A i \in DOMAIN output.fields :
         LET field == output.of.fields[i]
             unit == output.fields[i]
         IN IF Unresolvable(field)
            THEN unit = NullEntry
            ELSE /\ unit # NullEntry
                 /\ unit.component = IF field.component.type # "null"
                                     THEN field.component.val
                                     ELSE DataTypes[field.type.val]
                 /\ unit.props.onChange = Str("handleFieldUpdate")
                 /\ \A k \in DOMAIN field : unit.props[k] = field[k]
    /\ output.calls =
         IF output.of.createFn
         THEN Cardinality({ i \in DOMAIN output.of.fields : ~Unresolvable(output.of.fields[i]) })
         ELSE 0

C8_Witness ==
  /\ Mapped
  /\ output.of.createFn
  /\ Len(output.fields) = MaxFields
  /\ output.fields[1] = NullEntry
  /\ output.fields[MaxFields] # NullEntry
  /\ output.calls = MaxFields - 1

====
